---- MODULE Spec2Model ----
(***************************************************************************)
(* Model of the clause comparison pipeline of backend/nlp.py               *)
(* (ContractAnalyzer): the multi-signal scorer compare_texts /             *)
(* calculate_similarity_score, the aligner compare_contracts, the          *)
(* critical-clause analysis and the risk conversions.                      *)
(*                                                                         *)
(* Texts are sequences of whitespace-separated words (text.split()).       *)
(* Scores are integers in hundredths of a percent (10000 = 100.00), and    *)
(* similarities in [0,1] are integers in 1/10000.                          *)
(***************************************************************************)
EXTENDS Integers, Sequences, FiniteSets, TLC

(* ---------------- bounds of the model ---------------- *)
MaxExpected == 2
MaxContract == 2
MaxCount == 2
MaxSections == 2
MaxFail == 2

(* ---------------- generic helpers ---------------- *)
Max2(a, b) == IF a >= b THEN a ELSE b
Min2(a, b) == IF a <= b THEN a ELSE b
Abs(a) == IF a >= 0 THEN a ELSE 0 - a
Range(s) == {s[i] : i \in 1..Len(s)}

RECURSIVE SumSeq(_)
SumSeq(s) == IF s = <<>> THEN 0 ELSE Head(s) + SumSeq(Tail(s))

RECURSIVE SumSet(_, _)
\* sum of F[x] over a finite set S, F a function on S
SumSet(S, F) ==
    IF S = {} THEN 0
    ELSE LET x == CHOOSE y \in S : TRUE IN F[x] + SumSet(S \ {x}, F)

\* Python round(x, 2) of a value given in 1/1000000 (i.e. x * 10^4 hundredths)
Round2(x) == (x + 50) \div 100

(* ---------------- the texts ---------------- *)
TPay500   == <<"vendor", "shall", "pay", "$500", "within", "30", "days">>
TPay450   == <<"vendor", "shall", "pay", "$450", "within", "45", "days">>
TInterest == <<"interest", "rate", "5%">>
TNotice   == <<"notices", "by", "mail">>
TResp     == <<"supplier", "is", "responsible", "for", "delivery">>
TStop     == <<"vendor", "shall", "stop", "pay", "$500", "within", "30", "days">>
TFee      == <<"fee", "USD500", "plus", "five", "percent">>

ClauseTexts == {TPay500, TPay450, TInterest, TNotice}
ScorerTexts == ClauseTexts \cup {TResp, TStop, TFee}

(* ---------------- embedding oracle ---------------- *)
\* cosine similarity (in percent) the oracle gives to two different texts;
\* encode() is deterministic, so identical texts have cosine 1.
CosLevels == {0, 50, 90}
\* the levels the scorer is called with: a cosine can be negative
ScorerCosLevels == CosLevels \cup {-20}
Cosine(cos, t1, t2) == IF t1 = t2 THEN 100 ELSE cos

(* ---------------- numeric sub-score ---------------- *)
\* The mentions the four regular expressions of _calculate_numeric_similarity
\* find in one word: type, matched string, and the number made of its digits
\* (float(''.join(filter(str.isdigit, value)))).  "$500" is matched by the
\* amount pattern and its digits by the quantity pattern; the quantity
\* pattern's lookahead rejects the digits of "5%".
Mention(ty, v, n) == [type |-> ty, value |-> v, num |-> n]
WordMentions(w) ==
    CASE w = "$500" -> <<Mention("amount", "$500", 500), Mention("quantity", "500", 500)>>
      [] w = "$450" -> <<Mention("amount", "$450", 450), Mention("quantity", "450", 450)>>
      [] w = "30"   -> <<Mention("quantity", "30", 30)>>
      [] w = "45"   -> <<Mention("quantity", "45", 45)>>
      [] w = "5%"   -> <<Mention("percentage", "5%", 5)>>
      [] OTHER      -> <<>>

RECURSIVE TextMentions(_)
TextMentions(text) ==
    IF text = <<>> THEN <<>> ELSE WordMentions(Head(text)) \o TextMentions(Tail(text))

OfType(ms, ty) == SelectSeq(ms, LAMBDA m : m.type = ty)

\* matches1 / matches2: all matches of one pattern, then of the next
NumericMatches(text) ==
    LET ms == TextMentions(text)
    IN  OfType(ms, "amount") \o OfType(ms, "percentage")
          \o OfType(ms, "quantity") \o OfType(ms, "date")

\* weights of the mention types, times 10
NumericWeight(ty) ==
    CASE ty = "amount" -> 4 [] ty = "percentage" -> 3
      [] ty = "quantity" -> 2 [] ty = "date" -> 1

\* 1.0 - relative_diff, in 1/10000
RelativeMatch(n1, n2) ==
    IF n1 = n2 THEN 10000 ELSE 10000 - ((Abs(n1 - n2) * 10000) \div Max2(n1, n2))

\* What one (value1, value2) pair contributes to best_match_score.  The
\* "else" of the relative-difference computation hangs on "if type1 == type2":
\* two mentions of the same type are compared only when they are dates, and
\* mentions of different types are compared by their digits.
PairScore(m1, m2) ==
    IF m1.type = m2.type
    THEN IF m1.type = "date" /\ m1.value = m2.value THEN 10000 ELSE 0
    ELSE RelativeMatch(m1.num, m2.num)

\* two different date strings reach float(value1), which raises ValueError
PairRaises(m1, m2) ==
    m1.type = m2.type /\ m1.type = "date" /\ m1.value # m2.value

RECURSIVE BestMatchScore(_, _)
BestMatchScore(m1, ms2) ==
    IF ms2 = <<>> THEN 0
    ELSE Max2(PairScore(m1, Head(ms2)), BestMatchScore(m1, Tail(ms2)))

_calculate_numeric_similarity(text1, text2) ==
    LET matches1 == NumericMatches(text1)
        matches2 == NumericMatches(text2)
        I1 == 1..Len(matches1)
        total_score ==
            SumSet(I1, [i \in I1 |->
                BestMatchScore(matches1[i], matches2) * NumericWeight(matches1[i].type)])
        total_weight == SumSet(I1, [i \in I1 |-> NumericWeight(matches1[i].type)])
    IN  IF matches1 = <<>> /\ matches2 = <<>> THEN 10000
        ELSE IF matches1 = <<>> \/ matches2 = <<>> THEN 0
        ELSE IF \E i \in I1 : \E j \in 1..Len(matches2) :
                    PairRaises(matches1[i], matches2[j])
             THEN 0
        ELSE IF total_weight > 0 THEN total_score \div total_weight ELSE 10000

(* ---------------- legal-term sub-score ---------------- *)
\* normalize_legal_terms replaces every variant by its canonical term with
\* str.replace, inside words too: the "end" of "vendor" becomes "terminate".
\* Of the vocabulary only this word contains a variant.
NormalizeWord(w) ==
    CASE w = "vendor" -> "vterminateor"
      [] OTHER        -> w

normalize_legal_terms(text) == [i \in 1..Len(text) |-> NormalizeWord(text[i])]

\* The entries of legal_term_normalizations (canonical term, and the term
\* itself or one of its variants as search key) that occur in a normalized
\* text over the vocabulary.  A key is a sequence of words.
LegalTermKeys ==
    { [term |-> "shall",     key |-> <<"shall">>],
      [term |-> "terminate", key |-> <<"terminate">>],
      [term |-> "terminate", key |-> <<"stop">>],
      [term |-> "shall",     key |-> <<"is", "responsible", "for">>] }

\* Python's "key in word" for a one-word key
KeyInWord(k, w) == w = k \/ (k = "terminate" /\ w = "vterminateor")

\* Python's "key in text"
KeyInText(key, words) ==
    IF Len(key) = 1
    THEN \E i \in 1..Len(words) : KeyInWord(key[1], words[i])
    ELSE \E i \in 1..Len(words) :
            i + Len(key) - 1 <= Len(words) /\ SubSeq(words, i, i + Len(key) - 1) = key

\* the window of context_words = 5 words on both sides of the last word that
\* contains the key; a key with a space in it is in no word, and the window
\* stays words[0:0]
ContextWords == 5
_get_term_context(words, key) ==
    LET hits == IF Len(key) = 1
                THEN {i \in 1..Len(words) : KeyInWord(key[1], words[i])}
                ELSE {}
    IN  IF hits = {} THEN <<>>
        ELSE LET i == CHOOSE h \in hits : \A g \in hits : g <= h
                 start == Max2(0, (i - 1) - ContextWords)
                 end == Min2(Len(words), (i - 1) + ContextWords + 1)
             IN  SubSeq(words, start + 1, end)

\* legal_terms1 / legal_terms2: the set of (term, context) pairs
LegalTermsOf(text) ==
    LET words == normalize_legal_terms(text)
    IN  { <<e.term, _get_term_context(words, e.key)>> :
            e \in {k \in LegalTermKeys : KeyInText(k.key, words)} }

\* (w1 in w2 or w2 in w1) and len(shorter) > 3, for two different words; no
\* word of the vocabulary longer than three letters lies inside another one
PartialWordMatch(w1, w2) == FALSE

\* the numbers the context similarity is made of
ContextCounts(context1, context2) ==
    LET words1 == Range(context1)
        words2 == Range(context2)
        remaining1 == words1 \ words2
        remaining2 == words2 \ words1
    IN  [ intersection |-> Cardinality(words1 \cap words2),
          union |-> Cardinality(words1 \cup words2),
          partial |-> Cardinality({p \in remaining1 \X remaining2 :
                                      PartialWordMatch(p[1], p[2])}) ]

\* min(1.0, intersection/union + 0.5*partial/union), in 1/10000
_calculate_context_similarity(context1, context2) ==
    IF context1 = <<>> \/ context2 = <<>> THEN 0
    ELSE LET c == ContextCounts(context1, context2)
         IN  IF c.union > 0
             THEN Min2(10000, (c.intersection * 10000 + c.partial * 5000) \div c.union)
             ELSE 0

\* context_similarity > 0.5, decided exactly
ContextAboveHalf(context1, context2) ==
    /\ context1 # <<>> /\ context2 # <<>>
    /\ LET c == ContextCounts(context1, context2)
       IN  2 * c.intersection + c.partial > c.union

_calculate_legal_term_similarity(text1, text2) ==
    LET legal_terms1 == LegalTermsOf(text1)
        legal_terms2 == LegalTermsOf(text2)
        pairs == {p \in legal_terms1 \X legal_terms2 :
                    p[1][1] = p[2][1] /\ ContextAboveHalf(p[1][2], p[2][2])}
        matches == SumSet(pairs, [p \in pairs |->
                        _calculate_context_similarity(p[1][2], p[2][2])])
        total_terms == Max2(Cardinality(legal_terms1), Cardinality(legal_terms2))
    IN  IF legal_terms1 = {} /\ legal_terms2 = {} THEN 10000
        ELSE IF total_terms > 0 THEN matches \div total_terms ELSE 0

(* ---------------- obligation sub-score ---------------- *)
\* the leading \w+ of a word; "" when the word starts with another character
WordChars(w) ==
    CASE w \in {"$500", "$450"} -> ""
      [] w = "5%" -> "5"
      [] OTHER -> w

\* the heads of obligation_patterns that occur over the vocabulary
ObligationHeads == { <<"shall">>, <<"is", "responsible", "for">> }

\* the matched strings of obligation_patterns in text.lower(): a head and
\* the \w+ that follows it
ObligationMatches(text) ==
    { SubSeq(text, i, i + Len(h) - 1) \o <<WordChars(text[i + Len(h)])>> :
        <<i, h>> \in { q \in (1..Len(text)) \X ObligationHeads :
                        /\ q[1] + Len(q[2]) <= Len(text)
                        /\ SubSeq(text, q[1], q[1] + Len(q[2]) - 1) = q[2]
                        /\ WordChars(text[q[1] + Len(q[2])]) # "" } }

_calculate_obligation_similarity(text1, text2) ==
    LET obligations1 == ObligationMatches(text1)
        obligations2 == ObligationMatches(text2)
        total_obligations == Max2(Cardinality(obligations1), Cardinality(obligations2))
    IN  IF obligations1 = {} /\ obligations2 = {} THEN 10000
        ELSE IF total_obligations > 0
             THEN (Cardinality(obligations1 \cap obligations2) * 10000) \div total_obligations
             ELSE 0

(* ---------------- differences payload ---------------- *)
\* _extract_legal_terms_with_context: one entry per whole-word occurrence of
\* a canonical term (variants are not searched); the context is the 50
\* characters before and after, which for clause texts this short is the text
_extract_legal_terms_with_context(text) ==
    LET hits == SelectSeq([i \in 1..Len(text) |-> i],
                          LAMBDA i : text[i] \in {e.term : e \in LegalTermKeys})
    IN  [n \in 1..Len(hits) |->
            [term |-> text[hits[n]], context |-> text, position |-> hits[n]]]

_find_modified_terms(terms1, terms2) ==
    LET pairs == SelectSeq(
            [n \in 1..(Len(terms1) * Len(terms2)) |->
                <<((n - 1) \div Len(terms2)) + 1, ((n - 1) % Len(terms2)) + 1>>],
            LAMBDA q : /\ terms1[q[1]].term = terms2[q[2]].term
                       /\ terms1[q[1]].context # terms2[q[2]].context)
    IN  [n \in 1..Len(pairs) |->
            [term |-> terms1[pairs[n][1]].term,
             original_context |-> terms1[pairs[n][1]].context,
             new_context |-> terms2[pairs[n][2]].context]]

_analyze_legal_term_differences(terms1, terms2) ==
    LET terms1_set == {<<t.term, t.context>> : t \in Range(terms1)}
        terms2_set == {<<t.term, t.context>> : t \in Range(terms2)}
    IN  [added |-> terms2_set \ terms1_set,
         removed |-> terms1_set \ terms2_set,
         modified |-> _find_modified_terms(terms1, terms2)]

_get_legal_term_differences(text1, text2) ==
    _analyze_legal_term_differences(_extract_legal_terms_with_context(text1),
                                    _extract_legal_terms_with_context(text2))

\* _extract_numeric_values uses the compiled self.numeric_patterns (date,
\* money, percentage, duration), one pattern after the other.  Their leading
\* and trailing \b keeps the money pattern from matching "$500" after a space
\* and the percentage pattern from matching "5%" before a space or the end;
\* over the vocabulary they find the amounts "USD<n>" (type 'money'), the
\* written percentage "five percent" and the durations "<n> days".
DurationUnits == {"days"}
IsNumberWord(w) == w \in {"30", "45"}
_extract_numeric_values(text) ==
    LET positions == [i \in 1..Len(text) |-> i]
        pair(i, firsts, seconds) ==
            i < Len(text) /\ text[i] \in firsts /\ text[i + 1] \in seconds
        money == SelectSeq(positions, LAMBDA i : text[i] \in {"USD500"})
        percentage == SelectSeq(positions, LAMBDA i : pair(i, {"five"}, {"percent"}))
        duration == SelectSeq(positions,
                        LAMBDA i : IsNumberWord(text[i]) /\ pair(i, {text[i]}, DurationUnits))
    IN  [n \in 1..Len(money) |-> [type |-> "money", value |-> <<text[money[n]]>>]]
          \o [n \in 1..Len(percentage) |->
                [type |-> "percentage",
                 value |-> <<text[percentage[n]], text[percentage[n] + 1]>>]]
          \o [n \in 1..Len(duration) |->
                [type |-> "duration",
                 value |-> <<text[duration[n]], text[duration[n] + 1]>>]]

NumericSeverity(ty) == IF ty \in {"amount", "percentage"} THEN "High" ELSE "Medium"

NumericDiff(kind, v) ==
    [type |-> kind, value |-> v.value, value_type |-> v.type,
     severity |-> NumericSeverity(v.type)]

_get_numeric_differences(text1, text2) ==
    LET numeric_values1 == _extract_numeric_values(text1)
        numeric_values2 == _extract_numeric_values(text2)
        found(v, others) == \E o \in Range(others) : o.value = v.value /\ o.type = v.type
        gone == SelectSeq(numeric_values1, LAMBDA v : ~found(v, numeric_values2))
        new == SelectSeq(numeric_values2, LAMBDA v : ~found(v, numeric_values1))
    IN  [n \in 1..Len(gone) |-> NumericDiff("removed", gone[n])]
          \o [n \in 1..Len(new) |-> NumericDiff("added", new[n])]

\* _extract_obligations: the matches of obligation_patterns with their
\* context; the matched string has a space in it, so _get_term_context finds
\* it in no word and the context is always empty
_extract_obligations(text) ==
    LET starts == SelectSeq([i \in 1..Len(text) |-> i],
                     LAMBDA i : \E h \in ObligationHeads :
                        /\ i + Len(h) <= Len(text)
                        /\ SubSeq(text, i, i + Len(h) - 1) = h
                        /\ WordChars(text[i + Len(h)]) # "")
        head(i) == CHOOSE h \in ObligationHeads :
                        /\ i + Len(h) <= Len(text)
                        /\ SubSeq(text, i, i + Len(h) - 1) = h
    IN  [n \in 1..Len(starts) |->
            [text |-> head(starts[n]) \o <<WordChars(text[starts[n] + Len(head(starts[n]))])>>,
             context |-> <<>>]]

_get_obligation_differences(text1, text2) ==
    LET obligations1 == _extract_obligations(text1)
        obligations2 == _extract_obligations(text2)
        texts2 == {o.text : o \in Range(obligations2)}
        matched_obligations == {o.text : o \in Range(obligations1)} \cap texts2
        \* the first obligation of text 2 with the same text
        partner(o) == obligations2[CHOOSE j \in 1..Len(obligations2) :
                          /\ obligations2[j].text = o.text
                          /\ \A k \in 1..(j - 1) : obligations2[k].text # o.text]
        first == SelectSeq(obligations1, LAMBDA o :
                    o.text \notin texts2 \/ partner(o).context # o.context)
        added == SelectSeq(obligations2, LAMBDA o : o.text \notin matched_obligations)
    IN  [n \in 1..Len(first) |->
            [type |-> IF first[n].text \in texts2 THEN "modified" ELSE "removed",
             obligation |-> first[n].text]]
          \o [n \in 1..Len(added) |-> [type |-> "added", obligation |-> added[n].text]]

EmptyDifferences ==
    [legal_terms |-> [added |-> {}, removed |-> {}, modified |-> <<>>],
     numeric_values |-> <<>>, obligations |-> <<>>, critical_changes |-> <<>>]

(* ---------------- the scorer ---------------- *)
\* float(cosine_similarity(...)) * 100, in hundredths
SemanticScore(cos, text1, text2) == Cosine(cos, text1, text2) * 100

\* the weighted sum, in 1/10000 of a percent
WeightedSum(legal_term_score, obligation_score, numeric_score, semantic_score) ==
    legal_term_score * 40 + obligation_score * 25
        + numeric_score * 20 + semantic_score * 15

compare_texts(cos, text1, text2) ==
    LET legal_term_score == _calculate_legal_term_similarity(text1, text2)
        obligation_score == _calculate_obligation_similarity(text1, text2)
        numeric_score == _calculate_numeric_similarity(text1, text2)
        semantic_score == SemanticScore(cos, text1, text2)
        similarity_score ==
            WeightedSum(legal_term_score, obligation_score, numeric_score, semantic_score)
    IN  [similarity_score |-> Round2(similarity_score),
         component_scores |->
            [legal_term_score |-> legal_term_score,
             numeric_score |-> numeric_score,
             obligation_score |-> obligation_score,
             semantic_score |-> semantic_score],
         differences |->
            [legal_terms |-> _get_legal_term_differences(text1, text2),
             numeric_values |-> _get_numeric_differences(text1, text2),
             obligations |-> _get_obligation_differences(text1, text2),
             critical_changes |-> <<>>]]

\* text1 = ' '.join(text1.split()) is the identity on a sequence of words
calculate_similarity_score(cos, text1, text2) ==
    LET final_score ==
            WeightedSum(_calculate_legal_term_similarity(text1, text2),
                        _calculate_obligation_similarity(text1, text2),
                        _calculate_numeric_similarity(text1, text2),
                        SemanticScore(cos, text1, text2))
    IN  Round2(Min2(Max2(final_score, 0), 1000000))

\* The except clause of compare_texts, entered when encode() or
\* cosine_similarity() raises: similarity_score is not bound yet, so
\* locals().get gives 0.0; the three sub-scores are bound; differences is the
\* default, whose legal_terms is an empty dict.
CompareTextsExcept(text1, text2) ==
    [similarity_score |-> 0,
     component_scores |->
        [legal_term_score |-> _calculate_legal_term_similarity(text1, text2),
         numeric_score |-> _calculate_numeric_similarity(text1, text2),
         obligation_score |-> _calculate_obligation_similarity(text1, text2),
         semantic_score |-> 0],
     differences |->
        [legal_terms |-> <<>>, numeric_values |-> <<>>,
         obligations |-> <<>>, critical_changes |-> <<>>]]

\* compare_texts with an embedding oracle that may raise
CompareTextsCall(fails, cos, text1, text2) ==
    IF fails THEN CompareTextsExcept(text1, text2)
    ELSE compare_texts(cos, text1, text2)

\* calculate_similarity_score with an embedding oracle that may raise: its
\* except clause returns 0.0
CalculateSimilarityScoreCall(fails, cos, text1, text2) ==
    IF fails THEN 0 ELSE calculate_similarity_score(cos, text1, text2)

(* ---------------- clause records ---------------- *)
\* A clause record is a dict; 'number' and 'text' may be absent from a
\* malformed record.  The caller numbers the clauses of a document by position.
Clause(n, t, hn, ht) ==
    [number |-> IF hn THEN n ELSE 0, has_number |-> hn,
     text |-> IF ht THEN t ELSE <<>>, has_text |-> ht]

\* is_critical_clause: the critical_clause_patterns that match a text over
\* the vocabulary are the payment patterns "\$\s*\d+..." and
\* "interest\s+(?:rate|charge)"
is_critical_clause(text) ==
    \/ \E i \in 1..Len(text) : text[i] \in {"$500", "$450"}
    \/ \E i \in 1..(Len(text) - 1) : text[i] = "interest" /\ text[i + 1] = "rate"

(* ---------------- Python values of mixed type ---------------- *)
PyStr(s) == [tag |-> "str", str |-> s, num |-> 0]
PyNum(n) == [tag |-> "num", str |-> "", num |-> n]

(* ---------------- risk ---------------- *)
NumericChangePoints(change) ==
    IF change.value_type = "amount" THEN 15
    ELSE IF change.value_type = "percentage" THEN 10
    ELSE 5

ObligationChangePoints(change) ==
    IF change.type = "removed" THEN 12
    ELSE IF change.type = "modified" THEN 8
    ELSE IF change.type = "added" THEN 5
    ELSE 0

_assess_change_risk(differences) ==
    LET critical_changes == differences.critical_changes
        missing_critical == Len(SelectSeq(critical_changes, LAMBDA x : x.type = "missing"))
        modified_critical == Len(SelectSeq(critical_changes, LAMBDA x : x.type = "modified"))
        legal_terms == differences.legal_terms
        numeric_values == differences.numeric_values
        obligations == differences.obligations
    IN  missing_critical * 30 + modified_critical * 20
          + Cardinality(legal_terms.removed) * 10
          + Len(legal_terms.modified) * 8
          + Cardinality(legal_terms.added) * 5
          + SumSeq([n \in 1..Len(numeric_values) |-> NumericChangePoints(numeric_values[n])])
          + SumSeq([n \in 1..Len(obligations) |-> ObligationChangePoints(obligations[n])])

(* ---------------- critical-clause analysis ---------------- *)
\* index of the first record whose expected clause has this number, 0 if none
FirstWithNumber(records, n) ==
    LET hits == {k \in 1..Len(records) : records[k].expected_clause.number = n}
    IN  IF hits = {} THEN 0 ELSE CHOOSE k \in hits : \A g \in hits : k <= g

\* variant: the partial matches are not searched
CriticalPlaceMatchesOnly(exp_clause, matches, partial_matches) ==
    IF FirstWithNumber(matches, exp_clause.number) # 0 THEN "matched_critical"
    ELSE "missing_critical"

\* the place one critical expected clause is filed under
CriticalPlace(exp_clause, matches, partial_matches) ==
    IF FirstWithNumber(matches, exp_clause.number) # 0 THEN "matched_critical"
    ELSE IF FirstWithNumber(partial_matches, exp_clause.number) # 0 THEN "modified_critical"
    ELSE "missing_critical"

CriticalEntry(exp_clause, matches, partial_matches) ==
    LET place == CriticalPlace(exp_clause, matches, partial_matches)
        rec == IF place = "matched_critical"
               THEN matches[FirstWithNumber(matches, exp_clause.number)]
               ELSE partial_matches[FirstWithNumber(partial_matches, exp_clause.number)]
    IN  IF place = "missing_critical"
        THEN [type |-> "payment", expected |-> exp_clause.text]
        ELSE [type |-> "payment", expected |-> exp_clause.text,
              actual |-> rec.contract_clause.text, similarity |-> rec.similarity_score]

\* the KeyErrors of analyze_critical_clauses: a 'number' missing from the
\* expected clause of a recorded match, a 'text' missing from an expected
\* clause, or a 'number' missing from a critical expected clause that is
\* compared with a recorded match
AnalyzeCriticalRaises(expected_clauses, matches, partial_matches) ==
    \/ \E m \in Range(matches) \cup Range(partial_matches) : ~m.expected_clause.has_number
    \/ \E e \in Range(expected_clauses) : ~e.has_text
    \/ \E e \in Range(expected_clauses) :
          /\ is_critical_clause(e.text) /\ ~e.has_number
          /\ (matches # <<>> \/ partial_matches # <<>>)

\* variant: the clauses that are not critical are not skipped
analyze_every_clause(expected_clauses, contract_clauses, matches, partial_matches) ==
    LET filed(place) ==
            LET es == SelectSeq(expected_clauses, LAMBDA e :
                          CriticalPlace(e, matches, partial_matches) = place)
            IN  [n \in 1..Len(es) |-> CriticalEntry(es[n], matches, partial_matches)]
    IN  [raised |-> AnalyzeCriticalRaises(expected_clauses, matches, partial_matches),
         results |-> [missing_critical |-> filed("missing_critical"),
                      modified_critical |-> filed("modified_critical"),
                      matched_critical |-> filed("matched_critical")]]

analyze_critical_clauses(expected_clauses, contract_clauses, matches, partial_matches) ==
    LET critical == SelectSeq(expected_clauses, LAMBDA e : is_critical_clause(e.text))
        filed(place) ==
            LET es == SelectSeq(critical, LAMBDA e :
                          CriticalPlace(e, matches, partial_matches) = place)
            IN  [n \in 1..Len(es) |-> CriticalEntry(es[n], matches, partial_matches)]
    IN  [raised |-> AnalyzeCriticalRaises(expected_clauses, matches, partial_matches),
         results |-> [missing_critical |-> filed("missing_critical"),
                      modified_critical |-> filed("modified_critical"),
                      matched_critical |-> filed("matched_critical")]]

(* ---------------- compare_contracts ---------------- *)
ZeroComponentScores ==
    [legal_term_score |-> 0, numeric_score |-> 0,
     obligation_score |-> 0, semantic_score |-> 0]

\* comparison_results as the first statement of the try block builds it
InitialResults ==
    [similarity_score |-> 0,
     component_scores |-> ZeroComponentScores,
     differences |-> EmptyDifferences,
     risk_level |-> PyStr("Medium"),
     change_summary |-> "",
     summary |-> [match_count |-> 0, partial_match_count |-> 0, mismatch_count |-> 0,
                  overall_similarity |-> 0, risk_level |-> PyStr("Medium"),
                  critical_issues_count |-> 0],
     matches |-> <<>>, partial_matches |-> <<>>, mismatches |-> <<>>,
     critical_analysis |-> [missing_critical |-> <<>>, modified_critical |-> <<>>,
                            matched_critical |-> <<>>]]

\* the bucket of a best score (hundredths of a percent)
MatchThreshold == 9000
PartialThreshold == 7000
\* variant: the match threshold set ten points too low
BucketLowMatch(best_score) ==
    IF best_score >= 8000 THEN "matches"
    ELSE IF best_score >= PartialThreshold THEN "partial_matches"
    ELSE "mismatches"

Bucket(best_score) ==
    IF best_score >= MatchThreshold THEN "matches"
    ELSE IF best_score >= PartialThreshold THEN "partial_matches"
    ELSE "mismatches"

\* variant: a score equal to the best so far replaces it
KeepBestOrEqual(j, acc, result) ==
    IF result.similarity_score >= acc.best_score
    THEN [raised |-> FALSE,
          best_match |-> j,
          best_score |-> result.similarity_score,
          best_result |-> result,
          component_scores |-> result.component_scores]
    ELSE acc

\* variant: the new best taken without its result
KeepBestStaleResult(j, acc, result) ==
    IF result.similarity_score > acc.best_score
    THEN [acc EXCEPT !.best_match = j, !.best_score = result.similarity_score]
    ELSE acc

\* one comparison of the inner loop: "if score > best_score" keeps the new
\* best; component_scores is overwritten by the same branch
KeepBest(j, acc, result) ==
    IF result.similarity_score > acc.best_score
    THEN [raised |-> FALSE,
          best_match |-> j,
          best_score |-> result.similarity_score,
          best_result |-> result,
          component_scores |-> result.component_scores]
    ELSE acc

\* The inner loop over the contract clauses, from clause j on.  acc holds
\* best_match (an index, 0 for None), best_score, best_result and the
\* report's component_scores; raised is the KeyError of a missing 'text'.
RECURSIVE ScanContract(_, _, _, _, _)
ScanContract(cos, expected_clause, contract_clauses, j, acc) ==
    IF j > Len(contract_clauses) THEN acc
    ELSE IF ~expected_clause.has_text \/ ~contract_clauses[j].has_text
         THEN [acc EXCEPT !.raised = TRUE]
    ELSE ScanContract(cos, expected_clause, contract_clauses, j + 1,
            KeepBest(j, acc,
                compare_texts(cos, expected_clause.text, contract_clauses[j].text)))

\* "if best_match and best_result": the record of the best match goes to the
\* bucket of its score
FileBest(expected_clause, contract_clauses, results, scan) ==
    LET match_data ==
            [expected_clause |-> expected_clause,
             contract_clause |-> contract_clauses[scan.best_match],
             similarity_score |-> scan.best_score,
             differences |-> scan.best_result.differences,
             component_scores |-> scan.best_result.component_scores]
        bucket == Bucket(scan.best_score)
        scored == [results EXCEPT !.component_scores = scan.component_scores]
    IN  IF scan.raised
        THEN [raised |-> TRUE, results |-> scored]
        ELSE IF scan.best_match # 0
        THEN [raised |-> FALSE,
              results |-> [scored EXCEPT ![bucket] = Append(@, match_data)]]
        ELSE [raised |-> FALSE, results |-> scored]

\* variant: a contract clause already on a record is out of consideration
ProcessExpectedOneToOne(cos, expected_clause, contract_clauses, res) ==
    LET free == SelectSeq(contract_clauses,
                    LAMBDA c : \A r \in Range(res.results.matches)
                                        \cup Range(res.results.partial_matches)
                                        \cup Range(res.results.mismatches) :
                                  r.contract_clause # c)
    IN  FileBest(expected_clause, free, res.results,
            ScanContract(cos, expected_clause, free, 1,
                [raised |-> FALSE, best_match |-> 0, best_score |-> 0,
                 best_result |-> [similarity_score |-> 0,
                                  component_scores |-> ZeroComponentScores,
                                  differences |-> EmptyDifferences],
                 component_scores |-> res.results.component_scores]))

\* one iteration of the loop over the expected clauses
ProcessExpected(cos, expected_clause, contract_clauses, res) ==
    FileBest(expected_clause, contract_clauses, res.results,
        ScanContract(cos, expected_clause, contract_clauses, 1,
            [raised |-> FALSE, best_match |-> 0, best_score |-> 0,
             best_result |-> [similarity_score |-> 0,
                              component_scores |-> ZeroComponentScores,
                              differences |-> EmptyDifferences],
             component_scores |-> res.results.component_scores]))

RECURSIVE ProcessAll(_, _, _, _, _)
ProcessAll(cos, expected_clauses, contract_clauses, i, res) ==
    IF res.raised \/ i > Len(expected_clauses) THEN res
    ELSE ProcessAll(cos, expected_clauses, contract_clauses, i + 1,
            ProcessExpected(cos, expected_clauses[i], contract_clauses, res))

\* (weighted_matches / total_clauses) * 100, in hundredths
OverallSimilarity(results, total_clauses) ==
    ((Len(results.matches) * 100 + Len(results.partial_matches) * 50) * 100)
        \div total_clauses

\* "if total_clauses > 0": the overall similarity stored in the report
StoreOverall(results, total_clauses) ==
    IF total_clauses > 0
    THEN [results EXCEPT !.similarity_score = OverallSimilarity(results, total_clauses),
                         !.summary.overall_similarity =
                                OverallSimilarity(results, total_clauses)]
    ELSE results

\* the risk score stored in both risk_level fields
StoreRisk(results) ==
    [results EXCEPT !.risk_level = PyNum(_assess_change_risk(results.differences)),
                    !.summary.risk_level = PyNum(_assess_change_risk(results.differences))]

\* the statements after the loop: critical analysis, then the risk score
AfterLoop(results, critical_analysis) ==
    IF critical_analysis.raised THEN [raised |-> TRUE, results |-> results]
    ELSE [raised |-> FALSE,
          results |-> StoreRisk([results EXCEPT
                            !.critical_analysis = critical_analysis.results])]

\* the statements after the loop, given the report with its overall similarity
Analyze(expected_clauses, contract_clauses, results) ==
    AfterLoop(results,
        analyze_critical_clauses(expected_clauses, contract_clauses,
                                 results.matches, results.partial_matches))

\* what the try block leaves once the loop is over
Conclude(expected_clauses, contract_clauses, looped) ==
    IF looped.raised THEN looped
    ELSE Analyze(expected_clauses, contract_clauses,
            StoreOverall(looped.results, Len(expected_clauses)))

\* the try block of compare_contracts: the report so far, and whether an
\* exception left the block
CompareContractsBody(cos, expected_clauses, contract_clauses) ==
    Conclude(expected_clauses, contract_clauses,
        ProcessAll(cos, expected_clauses, contract_clauses, 1,
            [raised |-> FALSE, results |-> InitialResults]))

\* variant: the except clause lets the exception go on to the caller
ExceptHandlerReraise(body) ==
    [outcome |-> IF body.raised THEN "raised" ELSE "returned",
     handled |-> body.raised, results |-> body.results]

\* "except Exception as e: ... return comparison_results"
ExceptHandler(body) ==
    [outcome |-> "returned", handled |-> body.raised, results |-> body.results]

compare_contracts(cos, expected_clauses, contract_clauses) ==
    ExceptHandler(CompareContractsBody(cos, expected_clauses, contract_clauses))

(* ---------------- the risk-level conversions ---------------- *)
_determine_risk_level(risk_points) ==
    IF risk_points >= 70 THEN "High"
    ELSE IF risk_points >= 40 THEN "Medium"
    ELSE "Low"

_assess_risk_level(differences) ==
    LET risk_points == _assess_change_risk(differences)
    IN  IF risk_points >= 100 THEN "Critical"
        ELSE IF risk_points >= 70 THEN "High"
        ELSE IF risk_points >= 40 THEN "Medium"
        ELSE IF risk_points >= 20 THEN "Low"
        ELSE "Minimal"

HighSeverity(changes) == Len(SelectSeq(changes, LAMBDA c : c.severity = "High"))

\* total_risk_score of _assess_risks
AssessRisksScore(results) ==
    LET missing_critical == Len(results.critical_analysis.missing_critical)
        modified_critical == Len(results.critical_analysis.modified_critical)
        pm == results.partial_matches
    IN  missing_critical * 30 + modified_critical * 20
          + SumSeq([n \in 1..Len(pm) |-> HighSeverity(pm[n].analysis.numeric_changes) * 15])
          + SumSeq([n \in 1..Len(pm) |-> HighSeverity(pm[n].analysis.structural_changes) * 10])
          + SumSeq([n \in 1..Len(pm) |-> HighSeverity(pm[n].analysis.content_changes) * 15])

\* the level _assess_risks stores in results['summary']['risk_level']
_assess_risks(results) ==
    LET normalized_score == Min2(100, AssessRisksScore(results))
    IN  IF normalized_score > 70 THEN "High"
        ELSE IF normalized_score > 40 THEN "Medium"
        ELSE "Low"

(* ---------------- recommendations ---------------- *)
\* dict.get(key, default) on a dict modelled as a record or the empty function
DictGet(d, key, default) == IF key \in DOMAIN d THEN d[key] ELSE default

\* one block of generate_recommendations
Block(priority, category, title) ==
    [priority |-> priority, category |-> category, title |-> title]

\* recommendations.sort(key=priority_order): a stable sort
SortByPriority(recs) ==
    SelectSeq(recs, LAMBDA r : r.priority = "High")
        \o SelectSeq(recs, LAMBDA r : r.priority = "Medium")
        \o SelectSeq(recs, LAMBDA r : r.priority = "Low")

NoChangesBlock == Block("Low", "General", "Minor Changes")

generate_recommendations(comparison_results) ==
    LET differences == comparison_results.differences
        legal_changes == differences.legal_terms
        numeric_changes == differences.numeric_values
        financial_changes ==
            SelectSeq(numeric_changes, LAMBDA c : c.type \in {"money", "percentage"})
        timeline_changes ==
            SelectSeq(numeric_changes, LAMBDA c : c.type \in {"date", "duration"})
        obligation_changes == differences.obligations
        risk_level == comparison_results.risk_level
        recommendations ==
            (IF DictGet(legal_changes, "modified", <<>>) # <<>>
                   \/ DictGet(legal_changes, "removed", {}) # {}
             THEN <<Block("High", "Legal", "Legal Term Modifications")>> ELSE <<>>)
            \o (IF financial_changes # <<>>
                 THEN <<Block("High", "Financial", "Financial Term Changes")>> ELSE <<>>)
            \o (IF timeline_changes # <<>>
                 THEN <<Block("Medium", "Timeline", "Timeline Modifications")>> ELSE <<>>)
            \o (IF obligation_changes # <<>>
                 THEN <<Block("High", "Obligations", "Changed Obligations")>> ELSE <<>>)
            \o (IF risk_level = PyStr("High")
                 THEN <<Block("High", "Risk", "High Risk Changes Detected")>> ELSE <<>>)
    IN  IF recommendations # <<>> THEN SortByPriority(recommendations)
        ELSE <<NoChangesBlock>>

\* one entry of _generate_recommendations
Entry(priority, type, details) ==
    [priority |-> priority, type |-> type, details |-> details]

\* partial matches with a structural change of type 'structure'
StructureIssues(results) ==
    SelectSeq(results.partial_matches, LAMBDA section :
        \E change \in Range(DictGet(section.differences, "structural_changes", <<>>)) :
            change.type = "structure")

_generate_recommendations(results) ==
    LET missing_critical == results.critical_analysis.missing_critical
        modified_critical == results.critical_analysis.modified_critical
        numeric_changes == SelectSeq(results.differences.numeric_values,
                                     LAMBDA change : change.severity = "High")
    IN  [n \in 1..Len(missing_critical) |->
            Entry("High", "critical_clause", missing_critical[n])]
        \o [n \in 1..Len(modified_critical) |->
            Entry("High", "modified_clause", modified_critical[n])]
        \o [n \in 1..Len(numeric_changes) |->
            Entry("High", "numeric_change", numeric_changes[n])]
        \o (IF StructureIssues(results) # <<>>
             THEN <<Entry("Medium", "structure", StructureIssues(results))>> ELSE <<>>)

(* ---------------- the caller's response (compare_documents) ---------------- *)
\* the inline mapping of risk points to a level
MapRiskPoints(risk_points) ==
    IF risk_points >= 70 THEN "High"
    ELSE IF risk_points >= 40 THEN "Medium"
    ELSE "Low"

\* the fields of the response entry built from a report
ResponseOf(comparison_results) ==
    [match_percentage |-> comparison_results.summary.overall_similarity,
     risk_score |-> _assess_change_risk(comparison_results.differences),
     risk_level |-> MapRiskPoints(_assess_change_risk(comparison_results.differences)),
     recommendations |-> DictGet(comparison_results, "recommendations", <<>>)]

(* ---------------- extract_clauses ---------------- *)
\* A document is a sequence of tokens separated by blanks: a section head
\* ("2." is digits and a dot), a number that no dot follows, the bullet "*"
\* (the source's bullet character), the colon, or a word.
SectionNumber == ("1." :> 1) @@ ("2." :> 2) @@ ("10." :> 10)
NumberWords == {"30"}

\* the first position from j on that holds a token of S, Len(text) + 1 if none
RECURSIVE FirstOf(_, _, _)
FirstOf(text, j, S) ==
    IF j > Len(text) \/ text[j] \in S THEN j ELSE FirstOf(text, j + 1, S)

\* where the title [^bullet, digit]+? of the head at i stops
TitleStop(text, i) == FirstOf(text, i + 1, {"*"} \cup NumberWords \cup (DOMAIN SectionNumber))

\* the main_section pattern at the head at i: the title is followed by a
\* bullet, by a section head, or ends the text; a title cannot hold a digit
\* and cannot be empty at the end of the text
MainSectionMatches(text, i) ==
    LET stop == TitleStop(text, i)
    IN  IF stop > Len(text) THEN stop > i + 1
        ELSE text[stop] \notin NumberWords

\* re.finditer(main_section): the positions of the matching heads, in text
\* order (the substitution before it puts every head at the start of a line).
\* A head with nothing before the next head takes that head's line break as
\* its title, so the next head cannot match.
RECURSIVE main_sections(_, _)
main_sections(text, i) ==
    IF i > Len(text) THEN <<>>
    ELSE IF text[i] \in (DOMAIN SectionNumber) /\ MainSectionMatches(text, i)
         THEN <<i>> \o main_sections(text, IF TitleStop(text, i) = i + 1 THEN i + 2
                                           ELSE TitleStop(text, i))
         ELSE main_sections(text, i + 1)

\* re.finditer(sub_section): a bullet, a title up to the first colon, a
\* content of at least one character up to the next bullet or the end
RECURSIVE sub_matches(_, _)
sub_matches(section_content, i) ==
    LET bullet == FirstOf(section_content, i, {"*"})
        colon == FirstOf(section_content, bullet + 1, {":"})
        stop == FirstOf(section_content, colon + 1, {"*"})
    IN  IF colon >= Len(section_content) THEN <<>>
        ELSE << [title |-> SubSeq(section_content, bullet + 1, colon - 1),
                 content |-> SubSeq(section_content, colon + 1, stop - 1)] >>
             \o sub_matches(section_content, stop)

\* determine_clause_importance: the first keyword list with a word in the
\* text decides; "None" when neither list has one
determine_clause_importance(text) ==
    IF \E i \in 1..Len(text) : text[i] \in {"payment"} THEN "High"
    ELSE IF \E i \in 1..Len(text) : text[i] \in {"notice"} THEN "Low"
    ELSE "None"

\* _process_clause returns None (here the empty list) for an empty content
\* and when a step of it raises; fails: the language pipeline raises in it.
\* The importance is the one is_critical_clause returns, High for every
\* critical clause type and '' otherwise, then "importance or 'Medium'".
_process_clause(number, title, content, fails) ==
    IF content = <<>> \/ fails THEN <<>>
    ELSE << [number |-> number, title |-> title, text |-> content,
             importance |-> IF is_critical_clause(content) THEN "High" ELSE "Medium",
             sub_clauses |-> <<>>] >>

\* the loop over the sub-sections of one main section; calls counts the
\* language pipeline's calls so far, fail_at is the call that raises
RECURSIVE SubClauses(_, _, _, _, _, _)
SubClauses(section_number, matches, k, sub_clauses, calls, fail_at) ==
    IF k > Len(matches) THEN [clauses |-> sub_clauses, calls |-> calls]
    ELSE LET called == IF matches[k].content = <<>> THEN 0 ELSE 1
             sub_clause == _process_clause(
                 section_number \o <<Len(sub_clauses) + 1>>,
                 matches[k].title, matches[k].content, calls + called = fail_at)
         IN  SubClauses(section_number, matches, k + 1, sub_clauses \o sub_clause,
                        calls + called, fail_at)

\* the loop over the main sections
RECURSIVE MainClauses(_, _, _, _, _, _)
MainClauses(text, sections, i, validated_clauses, calls, fail_at) ==
    IF i > Len(sections) THEN validated_clauses
    ELSE LET start_pos == TitleStop(text, sections[i])
             end_pos == IF i + 1 <= Len(sections) THEN sections[i + 1]
                        ELSE Len(text) + 1
             section_number == <<SectionNumber[text[sections[i]]]>>
             section_content == SubSeq(text, start_pos, end_pos - 1)
             called == IF section_content = <<>> THEN 0 ELSE 1
             main_clause == _process_clause(
                 section_number, SubSeq(text, sections[i] + 1, start_pos - 1),
                 section_content, calls + called = fail_at)
             subs == IF main_clause = <<>>
                     THEN [clauses |-> <<>>, calls |-> calls + called]
                     ELSE SubClauses(section_number, sub_matches(section_content, 1),
                                     1, <<>>, calls + called, fail_at)
         IN  MainClauses(text, sections, i + 1,
                 validated_clauses \o
                     [n \in 1..Len(main_clause) |->
                         [main_clause[n] EXCEPT !.sub_clauses = subs.clauses]],
                 subs.calls, fail_at)

\* extract_clauses: call 0 of the language pipeline is the domain detection's;
\* the except clause turns every exception into the empty list; the
\* completion oracle is not called on any path
extract_clauses(text, fail_at) ==
    [raised |-> FALSE,
     llm_calls |-> 0,
     clauses |-> IF fail_at = 0 THEN <<>>
                 ELSE MainClauses(text, main_sections(text, 1), 1, <<>>, 0, fail_at)]

\* the loop of _extract_with_llm over the parsed response
RECURSIVE LlmClauses(_, _, _, _, _)
LlmClauses(clauses, k, validated_clauses, calls, fail_at) ==
    IF k > Len(clauses) THEN validated_clauses
    ELSE IF ~clauses[k].has_text
         THEN LlmClauses(clauses, k + 1, validated_clauses, calls, fail_at)
         ELSE LET called == IF clauses[k].text = <<>> THEN 0 ELSE 1
                  number == IF clauses[k].number = <<>>
                            THEN <<Len(validated_clauses) + 1>>
                            ELSE clauses[k].number
              IN  LlmClauses(clauses, k + 1,
                      validated_clauses \o
                          _process_clause(number, clauses[k].title, clauses[k].text,
                                          calls + called = fail_at),
                      calls + called, fail_at)

\* _extract_with_llm: one call of the completion oracle; a failed call and an
\* unparsable response give the empty list
_extract_with_llm(response, fail_at) ==
    [raised |-> FALSE,
     llm_calls |-> 1,
     clauses |-> IF response.fails THEN <<>>
                 ELSE LlmClauses(response.clauses, 1, <<>>, 0, fail_at)]

\* natural_sort_key of a clause number: its integer chunks, compared in
\* order, a number before the numbers it is a prefix of ("3" before "3.1")
RECURSIVE NaturalLess(_, _)
NaturalLess(a, b) ==
    IF a = <<>> THEN b # <<>>
    ELSE IF b = <<>> THEN FALSE
    ELSE IF Head(a) # Head(b) THEN Head(a) < Head(b)
    ELSE NaturalLess(Tail(a), Tail(b))

(* ---------------- state ---------------- *)
VARIABLES
    pc,                  \* where the modelled call stands
    cosine,              \* the embedding oracle's cosine for two different texts
    oracle_fails,        \* the embedding oracle raises instead of answering
    expected_clauses,    \* arguments of compare_contracts
    contract_clauses,
    comparison_results,  \* the report compare_contracts returns
    handled,             \* the call went through its except clause
    outcome,             \* "returned" or "raised"
    text1, text2,        \* arguments of the scorer
    text_result,         \* what compare_texts returned
    score,               \* what calculate_similarity_score returned
    risk_in,             \* the counted differences given to the risk conversions
    risk_out,            \* points and level of each risk conversion
    recommendations,     \* what a recommendation generator returned
    response,            \* the response entry the caller builds from a report
    document,            \* the text given to extract_clauses
    nlp_fails_at,        \* the call of the language pipeline that raises, counted from 0
    llm_response,        \* what the completion oracle answers when it is asked
    extracted,           \* what the extraction returned
    calls,               \* the concurrent compare_contracts calls: arguments and position
    frames               \* their local comparison_results, one frame for each call

vars == <<pc, cosine, oracle_fails, expected_clauses, contract_clauses, comparison_results,
          handled, outcome, text1, text2, text_result, score, risk_in, risk_out,
          recommendations, response, document, nlp_fails_at, llm_response, extracted,
          calls, frames>>

contractVars == <<expected_clauses, contract_clauses, comparison_results, handled, outcome>>
scorerVars == <<text1, text2, text_result, score>>
riskVars == <<risk_in, risk_out>>
reportVars == <<recommendations, response>>
extractVars == <<document, nlp_fails_at, llm_response, extracted>>
concVars == <<calls, frames>>

NoResult == [similarity_score |-> 0, component_scores |-> ZeroComponentScores,
             differences |-> EmptyDifferences]
NoRisk == [points |-> 0, level |-> "none"]
NoRiskOut == [determine |-> NoRisk, assess |-> NoRisk, risks |-> NoRisk]
NoRiskIn == [missing |-> 0, modified |-> 0, removed_terms |-> 0, amount_changes |-> 0]

IdleContract ==
    /\ expected_clauses = <<>> /\ contract_clauses = <<>>
    /\ comparison_results = InitialResults /\ handled = FALSE /\ outcome = "none"
IdleScorer ==
    /\ text1 = <<>> /\ text2 = <<>> /\ text_result = NoResult /\ score = 0
IdleRisk == risk_in = NoRiskIn /\ risk_out = NoRiskOut
NoResponse == [match_percentage |-> 0, risk_score |-> 0, risk_level |-> "none",
               recommendations |-> <<>>]
IdleReport == recommendations = <<>> /\ response = NoResponse
NeverFails == -1
NoResponseFromLlm == [fails |-> TRUE, clauses |-> <<>>]
NotExtracted == [raised |-> FALSE, llm_calls |-> 0, clauses |-> <<>>]
IdleExtract ==
    /\ document = <<>> /\ nlp_fails_at = NeverFails
    /\ llm_response = NoResponseFromLlm /\ extracted = NotExtracted
IdleConc == calls = <<>> /\ frames = <<>>

(* ---------------- compare_contracts calls ---------------- *)
\* the clause lists a caller can pass: numbered by position, any record
\* possibly malformed
SeqsUpTo(S, n) == UNION {[1..k -> S] : k \in 0..n}

\* <<text, has_text, has_number>>: the well-formed clauses, a critical clause
\* without 'number' and a clause without 'text'
ExpectedTexts == {TPay500, TInterest, TNotice}
ExpectedShapes ==
    (ExpectedTexts \X {TRUE} \X {TRUE})
        \cup {<<TInterest, TRUE, FALSE>>, <<TNotice, FALSE, TRUE>>}
\* <<text, has_text>>
ContractTexts == {TPay500, TPay450, TInterest}
ContractShapes == (ContractTexts \X {TRUE}) \cup {<<TNotice, FALSE>>}

ExpectedLists ==
    { [i \in 1..Len(sh) |-> Clause(i, sh[i][1], sh[i][3], sh[i][2])] :
        sh \in SeqsUpTo(ExpectedShapes, MaxExpected) }
ContractLists ==
    { [i \in 1..Len(sh) |-> Clause(i, sh[i][1], TRUE, sh[i][2])] :
        sh \in SeqsUpTo(ContractShapes, MaxContract) }

Init ==
    /\ pc = "called"
    /\ cosine \in CosLevels
    /\ oracle_fails = FALSE
    /\ expected_clauses \in ExpectedLists
    /\ contract_clauses \in ContractLists
    /\ comparison_results = InitialResults
    /\ handled = FALSE
    /\ outcome = "none"
    /\ IdleScorer /\ IdleRisk /\ IdleReport /\ IdleExtract /\ IdleConc

CallCompareContracts ==
    /\ pc = "called"
    /\ LET r == compare_contracts(cosine, expected_clauses, contract_clauses)
       IN  /\ comparison_results' = r.results
           /\ handled' = r.handled
           /\ outcome' = r.outcome
    /\ pc' = "done"
    /\ UNCHANGED <<cosine, oracle_fails, expected_clauses, contract_clauses, scorerVars, riskVars, reportVars, extractVars, concVars>>

\* compare_documents builds its response entry from the report
ReportComparison ==
    /\ pc = "done"
    /\ response' = ResponseOf(comparison_results)
    /\ pc' = "reported"
    /\ UNCHANGED <<cosine, oracle_fails, contractVars, scorerVars, riskVars, recommendations, extractVars, concVars>>

Next == CallCompareContracts \/ ReportComparison

Spec == Init /\ [][Next]_vars

(* ---------------- scorer calls ---------------- *)
InitScorer ==
    /\ pc = "scoring"
    /\ cosine \in ScorerCosLevels
    /\ oracle_fails \in BOOLEAN
    /\ text1 \in ScorerTexts
    /\ text2 \in ScorerTexts
    /\ text_result = NoResult
    /\ score = 0
    /\ IdleContract /\ IdleRisk /\ IdleReport /\ IdleExtract /\ IdleConc

CallCompareTexts ==
    /\ pc = "scoring"
    /\ text_result' = CompareTextsCall(oracle_fails, cosine, text1, text2)
    /\ pc' = "compared"
    /\ UNCHANGED <<cosine, oracle_fails, text1, text2, score, contractVars, riskVars, reportVars, extractVars, concVars>>

CallCalculateSimilarityScore ==
    /\ pc = "scoring"
    /\ score' = CalculateSimilarityScoreCall(oracle_fails, cosine, text1, text2)
    /\ pc' = "calculated"
    /\ UNCHANGED <<cosine, oracle_fails, text1, text2, text_result, contractVars, riskVars, reportVars, extractVars, concVars>>

NextScorer == CallCompareTexts \/ CallCalculateSimilarityScore

SpecScorer == InitScorer /\ [][NextScorer]_vars

(* ---------------- risk conversion calls ---------------- *)
Repeat(x, n) == [i \in 1..n |-> x]

\* a differences payload with the counted changes
DifferencesOf(in) ==
    [legal_terms |-> [added |-> {}, modified |-> <<>>,
                      removed |-> {<<"shall", <<k>>>> : k \in 1..in.removed_terms}],
     numeric_values |-> Repeat([type |-> "removed", value_type |-> "amount",
                                severity |-> "High"], in.amount_changes),
     obligations |-> <<>>,
     critical_changes |-> Repeat([type |-> "missing"], in.missing)
                            \o Repeat([type |-> "modified"], in.modified)]

\* comparison results with the same critical clauses and numeric changes
ResultsOf(in) ==
    [critical_analysis |->
        [missing_critical |-> Repeat([type |-> "payment"], in.missing),
         modified_critical |-> Repeat([type |-> "payment"], in.modified)],
     partial_matches |->
        << [analysis |->
              [numeric_changes |-> Repeat([severity |-> "High"], in.amount_changes),
               structural_changes |-> <<>>, content_changes |-> <<>>]] >>]

InitRisk ==
    /\ pc = "risk"
    /\ cosine = 0
    /\ oracle_fails = FALSE
    /\ risk_in \in [missing : 0..MaxCount, modified : 0..MaxCount,
                    removed_terms : 0..MaxCount, amount_changes : 0..MaxCount]
    /\ risk_out = NoRiskOut
    /\ IdleContract /\ IdleScorer /\ IdleReport /\ IdleExtract /\ IdleConc

CallDetermineRiskLevel ==
    /\ pc = "risk" /\ risk_out.determine = NoRisk
    /\ LET risk_points == _assess_change_risk(DifferencesOf(risk_in))
       IN  risk_out' = [risk_out EXCEPT !.determine =
                [points |-> risk_points, level |-> _determine_risk_level(risk_points)]]
    /\ UNCHANGED <<pc, cosine, oracle_fails, risk_in, contractVars, scorerVars, reportVars, extractVars, concVars>>

CallAssessRiskLevel ==
    /\ pc = "risk" /\ risk_out.assess = NoRisk
    /\ risk_out' = [risk_out EXCEPT !.assess =
            [points |-> _assess_change_risk(DifferencesOf(risk_in)),
             level |-> _assess_risk_level(DifferencesOf(risk_in))]]
    /\ UNCHANGED <<pc, cosine, oracle_fails, risk_in, contractVars, scorerVars, reportVars, extractVars, concVars>>

CallAssessRisks ==
    /\ pc = "risk" /\ risk_out.risks = NoRisk
    /\ risk_out' = [risk_out EXCEPT !.risks =
            [points |-> AssessRisksScore(ResultsOf(risk_in)),
             level |-> _assess_risks(ResultsOf(risk_in))]]
    /\ UNCHANGED <<pc, cosine, oracle_fails, risk_in, contractVars, scorerVars, reportVars, extractVars, concVars>>

NextRisk == CallDetermineRiskLevel \/ CallAssessRiskLevel \/ CallAssessRisks

SpecRisk == InitRisk /\ [][NextRisk]_vars

(* ---------------- recommendation generator calls ---------------- *)
RiskLevelInputs == {PyStr("High"), PyStr("Medium"), PyStr("Low"), PyNum(0)}

\* comparison results whose differences payload comes from compare_texts,
\* with the counted critical clauses and a risk level
ResultsFor(differences, in, risk_level, expected, actual) ==
    [InitialResults EXCEPT
        !.differences = differences,
        !.risk_level = risk_level,
        !.summary.risk_level = risk_level,
        !.critical_analysis =
            [missing_critical |->
                Repeat([type |-> "payment", expected |-> expected], in.missing),
             modified_critical |->
                Repeat([type |-> "payment", expected |-> expected,
                        actual |-> actual, similarity |-> PartialThreshold], in.modified),
             matched_critical |-> <<>>]]

InitRecs ==
    /\ pc = "recommend"
    /\ cosine = 0
    /\ oracle_fails = FALSE
    /\ text1 \in ScorerTexts
    /\ text2 \in ScorerTexts
    /\ text_result = NoResult
    /\ score = 0
    /\ expected_clauses = <<>> /\ contract_clauses = <<>>
    /\ handled = FALSE /\ outcome = "none"
    /\ risk_in \in [missing : 0..MaxCount, modified : 0..MaxCount,
                    removed_terms : {0}, amount_changes : {0}]
    /\ risk_out = NoRiskOut
    /\ \E risk_level \in RiskLevelInputs :
          comparison_results =
              ResultsFor(compare_texts(cosine, text1, text2).differences,
                         risk_in, risk_level, text1, text2)
    /\ IdleReport /\ IdleExtract /\ IdleConc

CallGenerateRecommendations ==
    /\ pc = "recommend"
    /\ recommendations' = generate_recommendations(comparison_results)
    /\ pc' = "generated"
    /\ UNCHANGED <<cosine, oracle_fails, contractVars, scorerVars, riskVars, response, extractVars, concVars>>

CallGenerateRecommendationsInternal ==
    /\ pc = "recommend"
    /\ recommendations' = _generate_recommendations(comparison_results)
    /\ pc' = "generated_internal"
    /\ UNCHANGED <<cosine, oracle_fails, contractVars, scorerVars, riskVars, response, extractVars, concVars>>

NextRecs == CallGenerateRecommendations \/ CallGenerateRecommendationsInternal

SpecRecs == InitRecs /\ [][NextRecs]_vars

(* ---------------- extraction calls ---------------- *)
\* what follows a section head: a title alone, a title with one or with two
\* bulleted sub-sections (with a word of the high-importance list, a word of
\* the low-importance list, a critical payment clause), a title with a number
\* in it, nothing
SectionShapes ==
    { <<"fees">>,
      <<"fees", "*", "late", ":", "interest">>,
      <<"fees", "*", "late", ":", "payment", "*", "notice", ":", "interest", "rate">>,
      <<"fees", "30", "days">>,
      <<>> }

RECURSIVE Concat(_)
Concat(parts) == IF parts = <<>> THEN <<>> ELSE Head(parts) \o Concat(Tail(parts))

\* the documents: up to MaxSections numbered sections in any order of their
\* numbers, and a text without any section head
Documents ==
    { Concat([k \in 1..Len(secs) |-> <<secs[k][1]>> \o secs[k][2]]) :
        secs \in SeqsUpTo((DOMAIN SectionNumber) \X SectionShapes, MaxSections) }
        \cup { <<"fees", "*", "late", ":", "interest">> }

\* the oracle's parsed answers: a failed call, a clause with its number and
\* one without, an entry without 'text' before a clause
LlmItem(number, has_text) ==
    [number |-> number, title |-> <<"fees">>, text |-> <<"late", "interest">>,
     has_text |-> has_text]
LlmResponses ==
    { NoResponseFromLlm,
      [fails |-> FALSE, clauses |-> << LlmItem(<<2>>, TRUE), LlmItem(<<>>, TRUE) >>],
      [fails |-> FALSE, clauses |-> << LlmItem(<<1>>, FALSE), LlmItem(<<>>, TRUE) >>] }

InitExtract ==
    /\ pc = "extract"
    /\ cosine = 0
    /\ oracle_fails = FALSE
    /\ document \in Documents
    /\ nlp_fails_at \in NeverFails..MaxFail
    /\ llm_response \in LlmResponses
    /\ extracted = NotExtracted
    /\ IdleContract /\ IdleScorer /\ IdleRisk /\ IdleReport /\ IdleConc

CallExtractClauses ==
    /\ pc = "extract"
    /\ extracted' = extract_clauses(document, nlp_fails_at)
    /\ pc' = "extracted"
    /\ UNCHANGED <<cosine, oracle_fails, contractVars, scorerVars, riskVars, reportVars,
                   document, nlp_fails_at, llm_response, concVars>>

CallExtractWithLlm ==
    /\ pc = "extract"
    /\ extracted' = _extract_with_llm(llm_response, nlp_fails_at)
    /\ pc' = "extracted_with_llm"
    /\ UNCHANGED <<cosine, oracle_fails, contractVars, scorerVars, riskVars, reportVars,
                   document, nlp_fails_at, llm_response, concVars>>

NextExtract == CallExtractClauses \/ CallExtractWithLlm

SpecExtract == InitExtract /\ [][NextExtract]_vars

(* ---------------- concurrent compare_contracts calls ---------------- *)
\* variant: the report kept in one place of the shared analyzer
FrameShared(c) == 1

\* comparison_results is a local of compare_contracts, created by the first
\* statement of the call: the frame a call works on is its own
Frame(c) == c

\* two requests to the one analyzer of the application, each with its own
\* clause lists, under one embedding model
InitConc ==
    /\ pc = "concurrent"
    /\ cosine \in CosLevels
    /\ oracle_fails = FALSE
    /\ calls \in [1..2 ->
          [pc : {"called"}, i : {1}, overlapped : {FALSE},
           out : {[outcome |-> "none", handled |-> FALSE, results |-> InitialResults]},
           expected_clauses :
              { [i \in 1..Len(sh) |-> Clause(i, sh[i][1], TRUE, sh[i][2])] :
                  sh \in SeqsUpTo({<<TPay500, TRUE>>, <<TNotice, FALSE>>}, MaxExpected) },
           contract_clauses :
              { <<Clause(1, TPay500, TRUE, TRUE)>>,
                <<Clause(1, TPay450, TRUE, TRUE), Clause(2, TInterest, TRUE, TRUE)>> }]]
    /\ frames = [c \in 1..2 |-> [raised |-> FALSE, results |-> InitialResults]]
    /\ IdleContract /\ IdleScorer /\ IdleRisk /\ IdleReport /\ IdleExtract

\* the first statement of the call: a new comparison_results
StartCall(c) ==
    /\ calls[c].pc = "called"
    /\ frames' = [frames EXCEPT ![Frame(c)] =
                      [raised |-> FALSE, results |-> InitialResults]]
    /\ calls' = [calls EXCEPT ![c].pc = "loop"]
    /\ UNCHANGED <<pc, cosine, oracle_fails, contractVars, scorerVars, riskVars,
                   reportVars, extractVars>>

\* one iteration of the loop over the expected clauses
StepExpected(c) ==
    /\ calls[c].pc = "loop"
    /\ calls[c].i <= Len(calls[c].expected_clauses)
    /\ ~frames[Frame(c)].raised
    /\ frames' = [frames EXCEPT ![Frame(c)] =
            ProcessExpected(cosine, calls[c].expected_clauses[calls[c].i],
                            calls[c].contract_clauses, frames[Frame(c)])]
    /\ calls' = [calls EXCEPT ![c].i = @ + 1,
                              ![c].overlapped = @ \/ calls[3 - c].pc = "loop"]
    /\ UNCHANGED <<pc, cosine, oracle_fails, contractVars, scorerVars, riskVars,
                   reportVars, extractVars>>

\* the end of the loop or the exception that left it, the statements after
\* the loop, and the return
ConcludeCall(c) ==
    /\ calls[c].pc = "loop"
    /\ calls[c].i > Len(calls[c].expected_clauses) \/ frames[Frame(c)].raised
    /\ calls' = [calls EXCEPT
            ![c].pc = "returned",
            ![c].out = ExceptHandler(Conclude(calls[c].expected_clauses,
                                              calls[c].contract_clauses,
                                              frames[Frame(c)]))]
    /\ UNCHANGED <<pc, cosine, oracle_fails, contractVars, scorerVars, riskVars,
                   reportVars, extractVars, frames>>

NextConc == \E c \in 1..2 : StartCall(c) \/ StepExpected(c) \/ ConcludeCall(c)

SpecConc == InitConc /\ [][NextConc]_vars

(* ======================= the claims ======================= *)
Done == pc = "done"
\* the call ran to its return statement, not through the except clause
Completed == pc = "done" /\ ~handled

Buckets == {"matches", "partial_matches", "mismatches"}
\* the best overall score the scorer gives an expected clause over the
\* contract clauses, 0 when there is none
BestScoreOf(e) ==
    LET scores == { compare_texts(cosine, e.text, contract_clauses[j].text).similarity_score :
                        j \in 1..Len(contract_clauses) }
    IN  IF scores = {} THEN 0 ELSE CHOOSE x \in scores : \A y \in scores : y <= x

\* C1: a completed compare_contracts call has exactly one alignment record
\* per expected clause, and an expected clause without any contract clause to
\* compare with is recorded among the mismatches with no matched clause.
C1_OneAlignmentPerExpectedClause ==
    Completed =>
        /\ Len(comparison_results.matches) + Len(comparison_results.partial_matches)
              + Len(comparison_results.mismatches) = Len(expected_clauses)
        /\ contract_clauses = <<>> =>
              \A i \in 1..Len(expected_clauses) :
                  \E r \in Range(comparison_results.mismatches) :
                      r.expected_clause = expected_clauses[i]

\* C2: every alignment record carries the best overall score of its expected
\* clause and lies in the bucket that score determines: matches iff s >= 90,
\* partial_matches iff 70 <= s < 90, mismatches iff s < 70; no record is in
\* two buckets.
C2_BucketByBestScore ==
    Done =>
        /\ \A b \in Buckets : \A r \in Range(comparison_results[b]) :
              LET s == r.similarity_score
              IN  /\ s = BestScoreOf(r.expected_clause)
                  /\ (b = "matches") <=> (s >= 9000)
                  /\ (b = "partial_matches") <=> (s >= 7000 /\ s < 9000)
                  /\ (b = "mismatches") <=> (s < 7000)
        /\ \A b1 \in Buckets : \A b2 \in Buckets \ {b1} :
              Range(comparison_results[b1]) \cap Range(comparison_results[b2]) = {}

C2_Witness ==
    /\ Done
    /\ comparison_results.partial_matches # <<>>
    /\ comparison_results.mismatches # <<>>

\* C3: compare_contracts never raises: also when a clause record is
\* malformed and the scoring loop or the critical-clause analysis fails, the
\* call returns a report with all its parts.
ReportKeys == {"summary", "matches", "partial_matches", "mismatches",
               "critical_analysis", "differences", "similarity_score", "risk_level"}
C3_NeverRaises ==
    Done => /\ outcome = "returned"
            /\ ReportKeys \subseteq DOMAIN comparison_results

C3_Witness == Done /\ handled /\ outcome = "returned"

\* C4: in a completed call every critical expected clause is listed by the
\* critical-clause analysis under its own alignment bucket: matched_critical
\* for a Match, modified_critical for a PartialMatch, missing_critical
\* otherwise, and never under missing_critical when its best score is >= 70.
InBucket(e, b) == \E r \in Range(comparison_results[b]) : r.expected_clause = e
ListedIn(e, l) == \E x \in Range(comparison_results.critical_analysis[l]) : x.expected = e.text
ListedOnlyIn(e, l) ==
    \A k \in {"matched_critical", "modified_critical", "missing_critical"} :
        ListedIn(e, k) <=> (k = l)

C4_CriticalFollowsBucket ==
    Completed =>
        \A i \in 1..Len(expected_clauses) :
            LET e == expected_clauses[i]
            IN  is_critical_clause(e.text) =>
                  /\ InBucket(e, "matches") => ListedOnlyIn(e, "matched_critical")
                  /\ InBucket(e, "partial_matches") => ListedOnlyIn(e, "modified_critical")
                  /\ (~InBucket(e, "matches") /\ ~InBucket(e, "partial_matches"))
                        => ListedOnlyIn(e, "missing_critical")
                  /\ BestScoreOf(e) >= 7000 => ~ListedIn(e, "missing_critical")

C4_Witness ==
    /\ Completed
    /\ comparison_results.critical_analysis.modified_critical # <<>>
    /\ comparison_results.critical_analysis.matched_critical # <<>>

\* C5: the risk score a completed call reports includes 30 points for every
\* clause of its missing_critical list and 20 for every clause of its
\* modified_critical list.
C5_RiskIncludesCriticalPoints ==
    Completed =>
        /\ comparison_results.risk_level.tag = "num"
        /\ comparison_results.risk_level.num >=
              30 * Len(comparison_results.critical_analysis.missing_critical)
                + 20 * Len(comparison_results.critical_analysis.modified_critical)

\* C6: the risk score a completed call reports includes the points of the
\* differences recorded on every alignment of the run (legal terms, numeric
\* changes, obligations).
DifferencePoints(d) == _assess_change_risk([d EXCEPT !.critical_changes = <<>>])
AlignmentPoints(b) ==
    SumSeq([n \in 1..Len(comparison_results[b]) |->
                DifferencePoints(comparison_results[b][n].differences)])

C6_RiskAggregatesDifferences ==
    Completed =>
        /\ comparison_results.risk_level.tag = "num"
        /\ comparison_results.risk_level.num >=
              AlignmentPoints("matches") + AlignmentPoints("partial_matches")
                + AlignmentPoints("mismatches")

\* C7: in every returned report risk_level and summary.risk_level are one of
\* High, Medium, Low, the level the thresholds 70 and 40 give the risk score.
RiskLevels == {"High", "Medium", "Low"}
C7_RiskLevelIsTiered ==
    Done =>
        /\ comparison_results.risk_level.tag = "str"
        /\ comparison_results.risk_level.str \in RiskLevels
        /\ comparison_results.summary.risk_level = comparison_results.risk_level
        /\ Completed => comparison_results.risk_level.str =
              _determine_risk_level(_assess_change_risk(comparison_results.differences))

\* C8: every conversion from risk points to a level gives High iff
\* points >= 70, Medium iff 40 <= points < 70, Low iff points < 40.
CanonicalTier(points) ==
    IF points >= 70 THEN "High" ELSE IF points >= 40 THEN "Medium" ELSE "Low"
C8_OneRiskTiering ==
    \A f \in {"determine", "assess", "risks"} :
        risk_out[f] # NoRisk => risk_out[f].level = CanonicalTier(risk_out[f].points)

\* C9: in every report of a completed call the summary counts are the
\* bucket sizes and critical_issues_count is the number of missing plus
\* modified critical clauses.
C9_SummaryCountsEqualBuckets ==
    Completed =>
        /\ comparison_results.summary.match_count = Len(comparison_results.matches)
        /\ comparison_results.summary.partial_match_count =
              Len(comparison_results.partial_matches)
        /\ comparison_results.summary.mismatch_count = Len(comparison_results.mismatches)
        /\ comparison_results.summary.critical_issues_count =
              Len(comparison_results.critical_analysis.missing_critical)
                + Len(comparison_results.critical_analysis.modified_critical)

\* C10: reflexivity: compare_texts(T, T) and calculate_similarity_score(T, T)
\* give an overall similarity of 100, within one hundredth.
C10_Reflexivity ==
    (~oracle_fails /\ text1 = text2) =>
        /\ pc = "compared" => Abs(text_result.similarity_score - 10000) <= 1
        /\ pc = "calculated" => Abs(score - 10000) <= 1

\* C11: the overall similarity of both scorers is the weighted sum
\* 0.40 legal-term + 0.25 obligation + 0.20 numeric + 0.15 semantic, clamped
\* to [0,100] and rounded to 2 decimals, so it always lies in [0,100].
ClampedWeightedScore ==
    Round2(Min2(Max2(
        WeightedSum(_calculate_legal_term_similarity(text1, text2),
                    _calculate_obligation_similarity(text1, text2),
                    _calculate_numeric_similarity(text1, text2),
                    SemanticScore(cosine, text1, text2)), 0), 1000000))
C11_ScoreClampedAndRounded ==
    ~oracle_fails =>
    /\ pc = "compared" =>
          /\ text_result.similarity_score = ClampedWeightedScore
          /\ text_result.similarity_score \in 0..10000
    /\ pc = "calculated" =>
          /\ score = ClampedWeightedScore
          /\ score \in 0..10000

\* C12: when the embedding oracle call fails, the semantic component
\* contributes 0 and the other three sub-scores still contribute their
\* weighted values to the overall score of both scorers.
ScoreWithoutSemantic ==
    WeightedSum(_calculate_legal_term_similarity(text1, text2),
                _calculate_obligation_similarity(text1, text2),
                _calculate_numeric_similarity(text1, text2), 0)
C12_ComponentFailureIsolated ==
    oracle_fails =>
        /\ pc = "compared" =>
              text_result.similarity_score = Round2(ScoreWithoutSemantic)
        /\ pc = "calculated" =>
              score = Round2(Min2(Max2(ScoreWithoutSemantic, 0), 1000000))

\* C13: the recommendations delivered with a comparison are never empty, and
\* when the report has no differences they are the single Low-priority
\* "no significant changes" entry.
NoDifferences(differences) ==
    /\ DictGet(differences.legal_terms, "modified", <<>>) = <<>>
    /\ DictGet(differences.legal_terms, "removed", {}) = {}
    /\ DictGet(differences.legal_terms, "added", {}) = {}
    /\ differences.numeric_values = <<>>
    /\ differences.obligations = <<>>
C13_RecommendationsNeverEmpty ==
    pc = "reported" =>
        /\ response.recommendations # <<>>
        /\ NoDifferences(comparison_results.differences) =>
              response.recommendations = <<NoChangesBlock>>

\* C14: for a differences payload produced by compare_texts,
\* generate_recommendations emits exactly one block for each non-empty
\* difference category (legal-term modifications, financial changes,
\* timeline changes, obligation changes) and none for an empty one.
BlocksOf(category) ==
    Len(SelectSeq(recommendations, LAMBDA r : r.category = category))
HasNumericChange(value_types) ==
    \E c \in Range(comparison_results.differences.numeric_values) :
        c.value_type \in value_types
OneBlockIff(category, nonempty) == BlocksOf(category) = IF nonempty THEN 1 ELSE 0
C14_OneBlockPerCategory ==
    pc = "generated" =>
        /\ OneBlockIff("Legal",
              \/ comparison_results.differences.legal_terms.modified # <<>>
              \/ comparison_results.differences.legal_terms.removed # {})
        /\ OneBlockIff("Financial", HasNumericChange({"money", "amount", "percentage"}))
        /\ OneBlockIff("Timeline", HasNumericChange({"date", "duration"}))
        /\ OneBlockIff("Obligations", comparison_results.differences.obligations # <<>>)

\* C15: the generated recommendation list has one recommendation for every
\* clause of missing_critical and of modified_critical, and the blanket
\* high-risk recommendation whenever the risk level is High.
EntriesOf(type) ==
    Len(SelectSeq(recommendations, LAMBDA r : DictGet(r, "type", "") = type))
HasBlanketHighRisk ==
    \E r \in Range(recommendations) : DictGet(r, "category", "") = "Risk"
C15_CriticalAndHighRiskRecommended ==
    pc \in {"generated", "generated_internal"} =>
        /\ EntriesOf("critical_clause") =
              Len(comparison_results.critical_analysis.missing_critical)
        /\ EntriesOf("modified_clause") =
              Len(comparison_results.critical_analysis.modified_critical)
        /\ comparison_results.risk_level = PyStr("High") => HasBlanketHighRisk

\* C16: compare_contracts with no expected clause and a non-empty contract
\* list returns without error a report with empty buckets, all counts zero
\* and risk level Low.
C16_NoExpectedClauses ==
    (Done /\ expected_clauses = <<>> /\ contract_clauses # <<>>) =>
        /\ ~handled /\ outcome = "returned"
        /\ comparison_results.matches = <<>>
        /\ comparison_results.partial_matches = <<>>
        /\ comparison_results.mismatches = <<>>
        /\ comparison_results.summary.match_count = 0
        /\ comparison_results.summary.partial_match_count = 0
        /\ comparison_results.summary.mismatch_count = 0
        /\ comparison_results.summary.critical_issues_count = 0
        /\ comparison_results.risk_level = PyStr("Low")
        /\ comparison_results.summary.risk_level = PyStr("Low")

\* the call of extract_clauses returned
Extracted == pc = "extracted"
\* the structural patterns find no main section in the document
ZeroMainSections == main_sections(document, 1) = <<>>

\* C17: when the structural patterns find no main section, extract_clauses
\* asks the completion oracle once and returns the clauses built from its
\* answer; when they find a main section the oracle is not asked.
C17_OracleOnZeroMainSections ==
    (Extracted /\ nlp_fails_at = NeverFails) =>
        /\ ZeroMainSections =>
              /\ extracted.llm_calls = 1
              /\ extracted.clauses = _extract_with_llm(llm_response, nlp_fails_at).clauses
        /\ ~ZeroMainSections => extracted.llm_calls = 0

\* the main clauses of a list, each followed by its sub-clauses
RECURSIVE Flatten(_)
Flatten(clauses) ==
    IF clauses = <<>> THEN <<>>
    ELSE <<Head(clauses)>> \o Head(clauses).sub_clauses \o Flatten(Tail(clauses))

\* a step of the extraction failed: the language pipeline raised in the
\* domain detection (call 0) or in the processing of a clause (the calls that
\* follow, one for each clause that has a content)
StepFailed ==
    /\ nlp_fails_at # NeverFails
    /\ nlp_fails_at <= Len(Flatten(extract_clauses(document, NeverFails).clauses))

\* C18: extract_clauses never raises, and when one of its steps fails (domain
\* detection, pattern matching, processing of a clause) it returns the empty
\* list.
C18_EmptyListOnFailure ==
    Extracted =>
        /\ ~extracted.raised
        /\ StepFailed => extracted.clauses = <<>>

\* a list of clauses is in natural order of its clause numbers
NaturallySorted(clauses) ==
    \A i, j \in 1..Len(clauses) :
        i < j => ~NaturalLess(clauses[j].number, clauses[i].number)

\* C19: the list extract_clauses returns is in natural (numeric-aware) order
\* of the clause numbers, whatever the order of the sections in the text.
C19_NaturalOrder ==
    Extracted => NaturallySorted(extracted.clauses)

\* C20: in the list extract_clauses returns, main clauses and sub-clauses
\* together, no two clauses have the same number, also for a text that
\* repeats a section number.
C20_UniqueNumbers ==
    Extracted =>
        \A i, j \in 1..Len(Flatten(extracted.clauses)) :
            i # j => Flatten(extracted.clauses)[i].number
                        # Flatten(extracted.clauses)[j].number

\* C21: every numeric-value difference compare_texts places in
\* differences.numeric_values carries a severity, High when the differing
\* mention is a monetary amount or a percentage and Medium for every other
\* type.
C21_NumericSeverity ==
    (pc = "compared" /\ ~oracle_fails) =>
        \A n \in 1..Len(text_result.differences.numeric_values) :
            LET change == text_result.differences.numeric_values[n]
            IN  change.severity =
                    IF change.value_type \in {"money", "percentage"}
                    THEN "High" ELSE "Medium"

\* C22: two compare_contracts calls running concurrently on the one analyzer
\* share no mutable state: under every interleaving of their steps each call
\* returns the report it returns when it runs alone on its inputs.
C22_ConcurrentCallsIndependent ==
    \A c \in DOMAIN calls :
        calls[c].pc = "returned" =>
            calls[c].out = compare_contracts(cosine, calls[c].expected_clauses,
                                             calls[c].contract_clauses)

\* both calls returned after iterations of their loops taken while the other
\* call was inside its own loop, on different inputs and with different reports
C22_Witness ==
    /\ DOMAIN calls = 1..2
    /\ \A c \in 1..2 : calls[c].pc = "returned" /\ calls[c].overlapped
    /\ calls[1].expected_clauses # calls[2].expected_clauses
    /\ calls[1].contract_clauses # calls[2].contract_clauses
    /\ calls[1].out.results.matches # <<>>
    /\ calls[2].out.results.mismatches # <<>>
    /\ calls[1].out # calls[2].out

\* the alignment records of the report, of all three buckets
Records == UNION { Range(comparison_results[b]) : b \in Buckets }

\* C23: the contract clause on an alignment record is one whose compare_texts
\* overall score is the maximum over all contract clauses, and the record's
\* similarity_score, differences and component_scores are those of that
\* comparison.
C23_RecordIsWinningComparison ==
    Done =>
        \A r \in Records :
            LET won == compare_texts(cosine, r.expected_clause.text,
                                     r.contract_clause.text)
            IN  /\ r.contract_clause \in Range(contract_clauses)
                /\ won.similarity_score = BestScoreOf(r.expected_clause)
                /\ r.similarity_score = won.similarity_score
                /\ r.differences = won.differences
                /\ r.component_scores = won.component_scores

\* a record whose winner is the second contract clause, ahead of a first one
\* that scored above zero, and whose comparison found numeric differences
C23_Witness ==
    /\ Completed
    /\ Len(contract_clauses) = 2
    /\ \E r \in Records :
          /\ r.contract_clause = contract_clauses[2]
          /\ r.differences.numeric_values # <<>>
          /\ compare_texts(cosine, r.expected_clause.text,
                           contract_clauses[1].text).similarity_score \in
                 1..(r.similarity_score - 1)

\* C24: compare_contracts assigns each expected clause independently of the
\* others, against the whole contract list: its record is the one the call
\* files for that expected clause alone; a contract clause already recorded
\* stays in consideration, so two expected clauses can hold the same one.
C24_IndependentAssignment ==
    Completed =>
        \A i \in 1..Len(expected_clauses) : \A b \in Buckets :
            Range(compare_contracts(cosine, <<expected_clauses[i]>>,
                                    contract_clauses).results[b])
                \subseteq Range(comparison_results[b])

\* two different expected clauses recorded with the same contract clause
C24_Witness ==
    /\ Completed
    /\ \E r1 \in Records : \E r2 \in Records :
          /\ r1.expected_clause.number # r2.expected_clause.number
          /\ r1.expected_clause.text # r2.expected_clause.text
          /\ r1.contract_clause = r2.contract_clause

\* C25: each of the four component scores compare_texts reports lies in
\* [0,100] for every pair of texts, the legal-term score also when a term
\* occurs with several contexts in a text.
C25_ComponentScoresInRange ==
    (pc = "compared" /\ ~oracle_fails) =>
        /\ text_result.component_scores.legal_term_score \in 0..10000
        /\ text_result.component_scores.obligation_score \in 0..10000
        /\ text_result.component_scores.numeric_score \in 0..10000
        /\ text_result.component_scores.semantic_score \in 0..10000


\* the importance the keyword lists give a text, Medium when neither list
\* has a word in it
KeywordImportance(text) ==
    IF determine_clause_importance(text) = "None" THEN "Medium"
    ELSE determine_clause_importance(text)

\* C26: every clause the segmentation produces has the importance the keyword
\* lists give its text: High with a high-importance keyword in it, Low with
\* only a low-importance keyword, Medium otherwise.
C26_KeywordImportance ==
    Extracted =>
        \A i \in 1..Len(Flatten(extracted.clauses)) :
            Flatten(extracted.clauses)[i].importance
                = KeywordImportance(Flatten(extracted.clauses)[i].text)


\* the entries of the three lists of the critical-clause analysis
CriticalEntries ==
    comparison_results.critical_analysis.matched_critical
        \o comparison_results.critical_analysis.modified_critical
        \o comparison_results.critical_analysis.missing_critical

\* C27: in a call whose critical-clause analysis returned, every critical
\* expected clause has exactly one entry in matched_critical,
\* modified_critical and missing_critical together and no other clause has
\* one: the three lengths sum to the number of critical expected clauses.
C27_CriticalClausesFiledOnce ==
    Completed =>
        /\ Len(CriticalEntries)
             = Cardinality({i \in 1..Len(expected_clauses) :
                              is_critical_clause(expected_clauses[i].text)})
        /\ \A x \in Range(CriticalEntries) : is_critical_clause(x.expected)
        /\ \A i \in 1..Len(expected_clauses) :
             is_critical_clause(expected_clauses[i].text) =>
               Cardinality({k \in 1..Len(CriticalEntries) :
                              CriticalEntries[k].expected = expected_clauses[i].text})
                 = Cardinality({j \in 1..Len(expected_clauses) :
                              expected_clauses[j].text = expected_clauses[i].text})

C27_Witness ==
    /\ Completed
    /\ \E i \in 1..Len(expected_clauses) : ~is_critical_clause(expected_clauses[i].text)
    /\ Len(CriticalEntries) = Len(expected_clauses) - 1
    /\ Len(comparison_results.critical_analysis.matched_critical)
         + Len(comparison_results.critical_analysis.modified_critical) > 0


\* the overall score of an expected clause against the j-th contract clause
ScoreAgainst(e, j) ==
    compare_texts(cosine, e.text, contract_clauses[j].text).similarity_score

\* C28: a contract clause replaces the best candidate only with a score
\* strictly greater than the best so far, 0 at first: the contract clause on
\* a record is the earliest of those with the highest score, its score is
\* above 0, and an expected clause whose scores are all 0 or less has no
\* record.
C28_StrictlyGreaterReplaces ==
    Done =>
        /\ \A r \in Records :
              /\ r.similarity_score > 0
              /\ \E j \in 1..Len(contract_clauses) :
                    /\ r.contract_clause = contract_clauses[j]
                    /\ ScoreAgainst(r.expected_clause, j) = r.similarity_score
                    /\ \A k \in 1..(j - 1) :
                          ScoreAgainst(r.expected_clause, k) < r.similarity_score
                    /\ \A k \in (j + 1)..Len(contract_clauses) :
                          ScoreAgainst(r.expected_clause, k) <= r.similarity_score
        /\ Completed =>
              \A i \in 1..Len(expected_clauses) :
                  BestScoreOf(expected_clauses[i]) <= 0 =>
                      \A r \in Records : r.expected_clause # expected_clauses[i]

\* two contract clauses tied for the highest score of a recorded expected
\* clause, and an expected clause all of whose scores are 0
C28_Witness ==
    /\ Completed
    /\ Len(contract_clauses) = 2
    /\ \E r \in Records :
          /\ r.contract_clause = contract_clauses[1]
          /\ ScoreAgainst(r.expected_clause, 2) = r.similarity_score
    /\ \E i \in 1..Len(expected_clauses) :
          /\ BestScoreOf(expected_clauses[i]) = 0
          /\ \A r \in Records : r.expected_clause # expected_clauses[i]


\* C29: in the legal-term differences of a clause pair a term occurrence is
\* reported in at most one of added, removed and modified: the two contexts
\* of a modified term are not also reported as one removed and one added.
C29_LegalTermReportedOnce ==
    (pc = "compared" /\ ~oracle_fails) =>
        \A n \in 1..Len(text_result.differences.legal_terms.modified) :
            LET m == text_result.differences.legal_terms.modified[n]
            IN  /\ <<m.term, m.original_context>>
                      \notin text_result.differences.legal_terms.removed
                /\ <<m.term, m.new_context>>
                      \notin text_result.differences.legal_terms.added


\* C30: in every report of a call with a non-empty expected list, returned
\* normally or through the except clause, similarity_score and
\* summary.overall_similarity are equal, lie in [0,100] and are
\* 100 * (len(matches) + 0.5 * len(partial_matches)) / len(expected_clauses)
\* for the matches and partial matches of that report.
C30_OverallSimilarityOfReport ==
    (Done /\ expected_clauses # <<>>) =>
        /\ comparison_results.similarity_score
             = comparison_results.summary.overall_similarity
        /\ comparison_results.similarity_score \in 0..10000
        /\ comparison_results.similarity_score
             = (10000 * Len(comparison_results.matches)
                  + 5000 * Len(comparison_results.partial_matches))
                 \div Len(expected_clauses)

====
